---- MODULE Spec2Model ----
(***************************************************************************)
(* Session-authentication coordinator and cookie-propagating reverse proxy *)
(* (AuthManager of auth.js, Express gateway of function.js).               *)
(*                                                                         *)
(* Execution model: one Node.js event loop.  A step is either a macrotask  *)
(* (a new inbound request, an I/O completion of the Session Store, of the  *)
(* login client or of the upstream, a clock tick) or the continuation of a *)
(* task whose awaited promise has settled.  Continuations are microtasks:  *)
(* while any is pending (ready # {}) no macrotask runs.  Every step runs   *)
(* the code from one suspension point (await) to the next.                 *)
(***************************************************************************)
EXTENDS Integers, Sequences, FiniteSets, TLC

\* ------------------------------------------------------------------ bounds
NumTasks == 2       \* request slots that can be in flight together
MaxCookies == 2     \* cookies of a stored session record
MaxRequests == 2    \* inbound requests handled in one run
MaxAttempts == 2    \* login handshakes started in one run
MaxTicks == 1       \* clock advances in one run

\* --------------------------------------------------------------- constants
Null == -1                          \* JS null for numeric fields / no task
NullStr == "null"                   \* JS null for string fields
maxRedirects == 10
maxSessionAge == 24 * 60 * 60 * 1000
T0 == 2 * (24 * 60 * 60 * 1000)     \* Date.now() when the process starts

Tasks == 1..NumTasks

\* --------------------------------------------------------- string helpers
\* Strings that the code searches or splits are sequences of tokens; a token
\* is the unit of String.includes / String.split in this model.
Range(s) == {s[i] : i \in 1..Len(s)}
Includes(s, needle) == needle \in Range(s)
Min(a, b) == IF a < b THEN a ELSE b

\* Host names and URLs of the login chain.
EbscoHost == <<"search.ebscohost.com">>
IdpHost == <<"login.openathens.net">>
MotorHost == <<"sites.", "motor.com">>
LookalikeHost == <<"motor.com", ".evil.example">>
ebscoLoginUrl == [host |-> EbscoHost, rest |-> <<"/login.aspx">>]
motorUrl == [host |-> MotorHost, rest |-> <<"/m1">>]
IdpUrl == [host |-> IdpHost, rest |-> <<"/sso">>]
IdpReturnUrl == [host |-> IdpHost, rest |-> <<"/sso?return=", "motor.com">>]
MotorLandingUrl == [host |-> MotorHost, rest |-> <<"/m1/connector">>]
LookalikeUrl == [host |-> LookalikeHost, rest |-> <<"/">>]
UrlHref(u) == u.host \o u.rest

\* ------------------------------------------------------------ CookieJar
\* String.split(sep): the segments of s between the separator tokens.
RECURSIVE split(_, _)
split(s, sep) ==
    IF \A i \in 1..Len(s) : s[i] # sep THEN <<s>>
    ELSE LET k == CHOOSE i \in 1..Len(s) :
                      s[i] = sep /\ \A j \in 1..(i - 1) : s[j] # sep
         IN  <<SubSeq(s, 1, k - 1)>> \o split(SubSeq(s, k + 1, Len(s)), sep)

\* String.trim(): leading and trailing blanks removed.
RECURSIVE trim(_)
trim(s) ==
    IF s # <<>> /\ Head(s) = " " THEN trim(Tail(s))
    ELSE IF s # <<>> /\ s[Len(s)] = " " THEN trim(SubSeq(s, 1, Len(s) - 1))
    ELSE s

\* The string a token sequence spells.
RECURSIVE Text(_)
Text(s) == IF s = <<>> THEN "" ELSE Head(s) \o Text(Tail(s))

\* Map.set(name, {value, domain}): an existing key keeps its position.
MapSet(jar, name, value, domain) ==
    IF \E i \in 1..Len(jar) : jar[i].name = name
    THEN [i \in 1..Len(jar) |->
             IF jar[i].name = name
             THEN [name |-> name, value |-> value, domain |-> domain]
             ELSE jar[i]]
    ELSE Append(jar, [name |-> name, value |-> value, domain |-> domain])

\* CookieJar.setCookie(setCookieHeader, domain)
setCookie(jar, setCookieHeader, domain) ==
    IF setCookieHeader = <<>> THEN jar
    ELSE LET parts == split(setCookieHeader, ";")
             nameValue == split(trim(parts[1]), "=")
             name == Text(nameValue[1])
             value == IF Len(nameValue) >= 2 THEN Text(nameValue[2]) ELSE ""
         IN  IF name # "" /\ value # ""
             THEN MapSet(jar, name, value, domain)
             ELSE jar

\* response.cookies.forEach(cookie => cookieJar.setCookie(cookie, hostname))
RECURSIVE storeCookies(_, _, _)
storeCookies(jar, headers, domain) ==
    IF headers = <<>> THEN jar
    ELSE storeCookies(setCookie(jar, Head(headers), domain), Tail(headers), domain)

\* CookieJar.getAllCookies(): the entries in insertion order.
getAllCookies(jar) == jar

\* The extraction after the redirect loop (part_003 306-316).
IsMotorCookie(cookie) == Includes(cookie.domain, "motor.com")
\* Variant: every cookie of the jar is stored, vendor cookie or not
extractCookiesAll(jar) == getAllCookies(jar)
extractCookies(jar) ==
    LET motor == SelectSeq(getAllCookies(jar), IsMotorCookie)
    IN  IF Len(motor) = 0 THEN getAllCookies(jar) ELSE motor

\* ---------------------------------------------------------- AuthManager
\* The fields of the singleton are one record, authManager:
\*   cookies, lastAuthTime, authPromise (the task whose authenticate() call
\*   created the promise, or Null), authProgress.
IdleProgress ==
    [status |-> "idle", step |-> NullStr, message |-> NullStr, progress |-> 0,
     error |-> NullStr, startedAt |-> Null, completedAt |-> Null]

\* authPromise = null
NoPromise == [owner |-> Null, state |-> "none"]

NewAuthManager ==
    [cookies |-> <<>>, lastAuthTime |-> Null, authPromise |-> NoPromise,
     authProgress |-> IdleProgress]

\* !x for a number or null
Falsy(x) == x = Null \/ x = 0

\* Variant: the manager's own object is handed out
getProgressAliased(am) == [object |-> "authProgress", fields |-> am.authProgress]
\* part_003 114-116: { ...this.authProgress }, a new object with the same
\* fields (all of them primitive values)
getProgress(am) == [object |-> "copy", fields |-> am.authProgress]
\* obj[field] = value, by a caller that holds obj: the manager's AuthProgress
\* changes only if obj is the manager's own object
assignField(am, obj, field, value) ==
    IF obj.object = "authProgress"
    THEN [am EXCEPT !.authProgress = [@ EXCEPT ![field] = value]]
    ELSE am

\* Variant: the start time is not filled in
_updateProgressNoStart(am, status, step, message, progress, t) ==
    [am EXCEPT !.authProgress =
        [@ EXCEPT !.status = status,
                  !.step = step,
                  !.message = message,
                  !.progress = IF progress # Null THEN progress ELSE @]]
\* part_003 121-130
_updateProgress(am, status, step, message, progress, t) ==
    [am EXCEPT !.authProgress =
        [@ EXCEPT !.status = status,
                  !.step = step,
                  !.message = message,
                  !.progress = IF progress # Null THEN progress ELSE @,
                  !.startedAt = IF Falsy(@) THEN t ELSE @]]

resetProgress(am) == [am EXCEPT !.authProgress = IdleProgress]

\* Variant: a Session aged exactly maxSessionAge still counts
isSessionValidInclusive(am, t) ==
    IF Len(am.cookies) = 0 \/ Falsy(am.lastAuthTime) THEN FALSE
    ELSE LET age == t - am.lastAuthTime IN age <= maxSessionAge
\* part_003 135-142
isSessionValid(am, t) ==
    IF Len(am.cookies) = 0 \/ Falsy(am.lastAuthTime) THEN FALSE
    ELSE LET age == t - am.lastAuthTime IN age < maxSessionAge

\* Variant: the pairs are concatenated without a separator
RECURSIVE joinCookiesUnseparated(_)
joinCookiesUnseparated(cs) ==
    IF cs = <<>> THEN <<>>
    ELSE <<Head(cs).name, "=", Head(cs).value>> \o joinCookiesUnseparated(Tail(cs))
\* cookies.map(c => `${c.name}=${c.value}`).join('; ')
RECURSIVE joinCookies(_)
joinCookies(cs) ==
    IF cs = <<>> THEN <<>>
    ELSE IF Len(cs) = 1 THEN <<Head(cs).name, "=", Head(cs).value>>
    ELSE <<Head(cs).name, "=", Head(cs).value, "; ">> \o joinCookies(Tail(cs))

\* ------------------------------------------------------------- the state
VARIABLES
    authManager,      \* the AuthManager singleton (part_003 95-109)
    store,            \* Firestore document sessions/motor_proxy_v3
    authInitialized,  \* function.js 350
    authInitPromise,  \* function.js 351: "null", "pending", "fulfilled", "rejected"
    now,              \* Date.now()
    pc,               \* per request task: where its handler is suspended
    req,              \* per task: the inbound request
    fwd,              \* per task: Cookie header sent to the upstream
    waitOn,           \* per task: owner of the authPromise its authenticate() call awaits
    outcome,          \* per task: how the promise it awaited settled
    ready,            \* tasks whose awaited promise settled (pending microtasks)
    hs,               \* per task: the handshake body its authenticate() call runs
    ev,               \* what the last step did (history variable)
    nRequests, nAttempts, nTicks

vars == <<authManager, store, authInitialized, authInitPromise, now, pc, req, fwd,
          waitOn, outcome, ready, hs, ev, nRequests, nAttempts, nTicks>>

NoDoc == [exists |-> FALSE, cookies |-> <<>>, timestamp |-> Null]
\* The request headers the gateway reads or writes; "" / <<>>: header absent.
NoHeaders == [cookie |-> <<>>, userAgent |-> "", referer |-> "", xRequestedWith |-> ""]
\* started: the handshakes the request has started before it is forwarded.
NoReq == [kind |-> "none", method |-> "GET", valid |-> FALSE, headers |-> NoHeaders,
          started |-> 0]
\* A response: fields: the keys of its JSON body, headers: the headers the
\* gateway set on it, authStatus: the body's authStatus ("": none).
NoRes == [status |-> 0, upstream |-> 0, kind |-> "none", body |-> "",
          sessionValid |-> FALSE, lastAuth |-> Null, fields |-> {},
          headers |-> {}, authStatus |-> "", received |-> {}]
NoHandshake ==
    [pc |-> "none", currentUrl |-> ebscoLoginUrl, redirectCount |-> 0,
     cookieJar |-> <<>>, requests |-> 0, left |-> Null, final |-> ebscoLoginUrl,
     sets |-> {}, session |-> NoDoc]
NoGot == [u \in Tasks |-> "none"]
\* ev: op/by: the step and its task; auth: the authenticate() call it made;
\* loaded: it overwrote the Session from the store; result/got: the attempt it
\* settled and the outcome each call received; res: the response it sent.
Ev(op, by, auth, loaded, result, got, r) ==
    [op |-> op, by |-> by, auth |-> auth, loaded |-> loaded, result |-> result,
     got |-> got, res |-> r]
NoEv == Ev("init", Null, "none", FALSE, "none", NoGot, NoRes)

AwaitAuthPcs == {"init_auth", "mw_auth", "gc_auth"}

\* ------------------------------------------------- AuthManager.authenticate
\* Variant: the in-progress marker is never consulted
JoinsExistingNever(am) == FALSE
\* part_003 218: an attempt is already in progress
JoinsExisting(am) == am.authPromise.owner # Null

\* Variant: a waiter swallows the attempt's error
WaiterResultSwallowed(r) == "ok"
\* part_003 220-225: what a waiter's call settles with, given the attempt's outcome
WaiterResult(r) == r

\* part_003 338-342: what the initiator's call settles with
InitiatorResult(r) == r

\* Variant: the settled promise stays in place
FinallyKeep(p, o, r) == [owner |-> o, state |-> r]
\* part_003 340-342: finally { this.authPromise = null }
FinallyClear(p, o, r) == NoPromise

\* part_003 229-244: the synchronous start of a new attempt by task t, up to the
\* first request of the redirect loop
beginAttempt(t, am) ==
    LET a0 == resetProgress(am)
        a1 == _updateProgress(a0, "authenticating", "init",
                              "Starting authentication...", 0, now)
        a2 == _updateProgress(a1, "authenticating", "ebsco_login",
                              "Connecting to EBSCO...", 10, now)
    IN  [a2 EXCEPT !.authPromise = [owner |-> t, state |-> "pending"]]

\* Variant: the jar is kept across attempts, starting from the last Session
FirstRequestSharedJar ==
    [NoHandshake EXCEPT !.pc = "loop", !.currentUrl = ebscoLoginUrl, !.requests = 1,
                        !.cookieJar = authManager.cookies]
\* part_003 236-241: a new CookieJar, the login URL, no redirect followed yet
FirstRequest ==
    [NoHandshake EXCEPT !.pc = "loop", !.currentUrl = ebscoLoginUrl, !.requests = 1]

\* authenticate() called by task t on manager state am, up to its first await:
\*   auth = "join"  : awaits the pending promise of task waitOn
\*   auth = "stale" : awaited a promise that had already settled
\*   auth = "start" : created a new promise and started its handshake
authenticate(t, am) ==
    IF JoinsExisting(am)
    THEN IF am.authPromise.state = "pending"
         THEN [am |-> am, auth |-> "join", waitOn |-> am.authPromise.owner,
               outcome |-> "none"]
         ELSE [am |-> am, auth |-> "stale", waitOn |-> Null,
               outcome |-> WaiterResult(am.authPromise.state)]
    ELSE [am |-> beginAttempt(t, am), auth |-> "start", waitOn |-> t,
          outcome |-> "none"]

\* ------------------------------------------------------ AuthManager, store
\* Variant: only a record that is still valid replaces the Session
loadSessionValidOnly(am, doc, readOk) ==
    IF ~readOk THEN [am |-> am, loaded |-> FALSE]
    ELSE IF ~doc.exists THEN [am |-> am, loaded |-> FALSE]
    ELSE LET a1 == [am EXCEPT !.cookies = doc.cookies,
                              !.lastAuthTime = doc.timestamp]
         IN  IF isSessionValid(a1, now) THEN [am |-> a1, loaded |-> TRUE]
             ELSE [am |-> am, loaded |-> FALSE]
\* loadSession() once the Firestore read has completed (part_003 147-171)
loadSession(am, doc, readOk) ==
    IF ~readOk THEN [am |-> am, loaded |-> FALSE]
    ELSE IF ~doc.exists THEN [am |-> am, loaded |-> FALSE]
    ELSE LET a1 == [am EXCEPT !.cookies = doc.cookies,
                              !.lastAuthTime = doc.timestamp]
         IN  [am |-> a1, loaded |-> isSessionValid(a1, now)]

\* saveSession(): the record handed to Firestore (part_003 177-181)
sessionRecord(am) ==
    [exists |-> TRUE, cookies |-> am.cookies, timestamp |-> am.lastAuthTime]

\* saveSession() once the Firestore write has completed (part_003 183-188)
saveSession(doc, record, writeOk) == IF writeOk THEN record ELSE doc

\* Variant: a failed write is rethrown to authenticate()
saveSessionResultThrowing(writeOk) == IF writeOk THEN "ok" ELSE "UNAVAILABLE"
\* part_003 183-188: what saveSession() settles with; the catch only logs
saveSessionResult(writeOk) == "ok"

\* Variant: the delete leaves the document in place
deleteSessionKeeping(doc, deleteOk) == doc
\* deleteSession() once the Firestore delete has completed (part_003 194-201)
deleteSession(doc, deleteOk) == IF deleteOk THEN NoDoc ELSE doc

\* part_003 197-199: what deleteSession() settles with; the catch only logs
deleteSessionResult(deleteOk) == "ok"

\* invalidateSession() up to its await (part_003 206-209)
invalidateSession(am) == [am EXCEPT !.lastAuthTime = 0, !.cookies = <<>>]

\* ----------------------------------------------------- the auth middleware
\* A run of a handler from one await to the next is a record:
\*   am: the manager afterwards, pc: where the task suspends or ends,
\*   auth/waitOn/outcome: the authenticate() call it made, if any,
\*   fwd: the Cookie header forwarded, res: the response sent.
Run(am, p, call, f, r) ==
    [am |-> am, pc |-> p, auth |-> call.auth, waitOn |-> call.waitOn,
     outcome |-> call.outcome, fwd |-> f, res |-> r]
NoCall == [auth |-> "none", waitOn |-> Null, outcome |-> "none"]

\* function.js 108-118
fail500(am, message) ==
    Run(am, "done", NoCall, <<>>,
        [NoRes EXCEPT !.status = 500, !.body = message,
                      !.fields = {"error", "message", "type", "title", "status"}])

\* Variant: the header is attached without the emptiness check
attachAndForwardUnchecked(t, am) ==
    Run(am, "forwarded", NoCall, joinCookies(am.cookies), NoRes)
\* function.js 98-107, after getCookies() returned
attachAndForward(t, am) ==
    LET cookieHeader == joinCookies(am.cookies)
    IN  IF cookieHeader = <<>>
        THEN fail500(am, "Failed to get cookie header - authentication may have failed")
        ELSE Run(am, "forwarded", NoCall, cookieHeader, NoRes)

\* Variant: getCookies() authenticates whatever the Session
getCookiesEager(t, am) ==
    LET c == authenticate(t, am) IN Run(c.am, "gc_auth", c, <<>>, NoRes)
\* function.js 98 -> part_003 373-376, 348-353: getCookieHeader() / getCookies()
getCookies(t, am) ==
    IF ~isSessionValid(am, now)
    THEN LET c == authenticate(t, am) IN Run(c.am, "gc_auth", c, <<>>, NoRes)
    ELSE attachAndForward(t, am)

\* function.js 85-96: the validity check that precedes loadSession()
ensureSession(t, am) ==
    IF ~isSessionValid(am, now)
    THEN Run(am, "mw_load", NoCall, <<>>, NoRes)
    ELSE getCookies(t, am)

\* function.js 88-95, after loadSession() returned
afterLoad(t, l) ==
    IF ~l.loaded \/ ~isSessionValid(l.am, now)
    THEN LET c == authenticate(t, resetProgress(l.am))
         IN  Run(c.am, "mw_auth", c, <<>>, NoRes)
    ELSE getCookies(t, l.am)

\* function.js 365-373: the initialization body after loadSession() returned
initAfterLoad(t, l) ==
    IF ~l.loaded \/ ~isSessionValid(l.am, now)
    THEN LET c == authenticate(t, l.am) IN Run(c.am, "init_auth", c, <<>>, NoRes)
    ELSE ensureSession(t, l.am)

\* function.js 227-229 / 305-307: the session is declared dead
invalidate(am) ==
    resetProgress([am EXCEPT !.lastAuthTime = 0, !.cookies = <<>>])

\* Variant: the recovery is started before the Session is cleared
onAuthFailureAuthFirst(t, am) ==
    LET c == authenticate(t, am) IN [c EXCEPT !.am = invalidate(c.am)]
\* function.js 223-240 / 301-333: upstream answered 401 or 403
onAuthFailure(t, am) == authenticate(t, invalidate(am))

\* function.js 49-62: POST /auth/start
authStart(t, am) == authenticate(t, resetProgress(am))

\* ------------------------------------------- the login handshake (the IIFE)
\* Variant: the percentage is not capped
progressPercentUncapped(redirectCount) == 10 + (redirectCount * 15)
\* part_003 264
progressPercent(redirectCount) == Min(10 + (redirectCount * 15), 70)

\* Variant: the loop has no ceiling
LoopContinuesAlways(redirectCount) == TRUE
\* part_003 247: while (redirectCount < maxRedirects)
LoopContinues(redirectCount) == redirectCount < maxRedirects

\* Variant: the URL is compared with the vendor's name instead of searched
ReachedMotorExact(currentUrl) == UrlHref(currentUrl) = <<"motor.com">>
\* part_003 279: currentUrl.includes('motor.com')
ReachedMotor(currentUrl) == Includes(UrlHref(currentUrl), "motor.com")

\* part_003 306-324: extraction, timestamp, and the call of saveSession()
extract(am, h, jar) ==
    LET a1 == [am EXCEPT !.cookies = extractCookies(jar), !.lastAuthTime = now]
        a2 == _updateProgress(a1, "authenticating", "saving", "Saving session...",
                              95, now)
    IN  [am |-> a2,
         h |-> [h EXCEPT !.pc = "saving", !.cookieJar = jar,
                         !.session = sessionRecord(a2)]]

\* part_003 255-304: one response inside the redirect loop
loopResponse(am, h, isRedirect, location, cookies) ==
    LET jar == storeCookies(h.cookieJar, cookies, h.currentUrl.host)
        a1 == _updateProgress(am, "authenticating", "redirecting",
                  "Following redirect " \o ToString(h.redirectCount + 1) \o "...",
                  progressPercent(h.redirectCount), now)
    IN  IF isRedirect
        THEN LET h1 == [h EXCEPT !.cookieJar = jar, !.currentUrl = location,
                                 !.redirectCount = @ + 1]
             IN  IF LoopContinues(h1.redirectCount)
                 THEN [am |-> a1, h |-> [h1 EXCEPT !.requests = @ + 1]]
                 ELSE extract(a1, h1, jar)
        ELSE IF ReachedMotor(h.currentUrl)
        THEN LET a2 == _updateProgress(a1, "authenticating", "motor_connect",
                           "Connecting to Motor.com...", 75, now)
                 a3 == _updateProgress(a2, "authenticating", "motor_auth",
                           "Authenticating with Motor.com...", 85, now)
             IN  [am |-> a3,
                  h |-> [h EXCEPT !.cookieJar = jar, !.pc = "final",
                                  !.requests = @ + 1]]
        ELSE extract(a1, h, jar)

\* part_003 293-299: the response of the final request to sites.motor.com/m1
finalResponse(am, h, cookies) ==
    extract(am, h, storeCookies(h.cookieJar, cookies, motorUrl.host))

\* Variant: the success update is skipped
succeedAttemptSilent(am) == [am EXCEPT !.authProgress.completedAt = now]
\* part_003 326-327
succeedAttempt(am) ==
    LET a1 == _updateProgress(am, "success", "complete",
                              "Authentication successful!", 100, now)
    IN  [a1 EXCEPT !.authProgress.completedAt = now]

\* Variant: the catch block also drops the Session
failAttemptClearing(am, message) ==
    LET a1 == _updateProgress(am, "error", "failed",
                              "Authentication failed: " \o message, 0, now)
    IN  [a1 EXCEPT !.authProgress.error = message,
                   !.authProgress.completedAt = now,
                   !.cookies = <<>>, !.lastAuthTime = 0]
\* part_003 329-334
failAttempt(am, message) ==
    LET a1 == _updateProgress(am, "error", "failed",
                              "Authentication failed: " \o message, 0, now)
    IN  [a1 EXCEPT !.authProgress.error = message,
                   !.authProgress.completedAt = now]

\* ----------------------------------------------------------- environment
\* A login chain: `left` redirects, the last of which leads to `final`; the
\* hosts in `sets` answer every request with their Set-Cookie header.
Script(left, final, sets) == [left |-> left, final |-> final, sets |-> sets]
\* Chains met by the gateway: the login page answers at once without a cookie,
\* or with its own cookie, or redirects to the vendor, which sets its cookie.
GatewayScripts ==
    {Script(0, ebscoLoginUrl, {}), Script(0, ebscoLoginUrl, {EbscoHost}),
     Script(1, MotorLandingUrl, {MotorHost})}
\* Chains met by a login started by hand: up to one redirect more than the
\* client follows, ending at the vendor, at the identity provider (whose return
\* URL mentions the vendor) or at a host whose name contains the vendor's.
ChainLens == {1, 3, maxRedirects - 1, maxRedirects, maxRedirects + 1}
FinalUrls == {MotorLandingUrl, IdpUrl, IdpReturnUrl, LookalikeUrl}
CookieSets ==
    {{}, {EbscoHost}, {MotorHost}, {EbscoHost, IdpHost, MotorHost},
     {EbscoHost, LookalikeHost}}
LoginScripts ==
    {Script(0, ebscoLoginUrl, sets) : sets \in CookieSets}
    \cup {Script(left, final, sets) :
              left \in ChainLens, final \in FinalUrls, sets \in CookieSets}
Errors == {"ECONNRESET", "ETIMEDOUT"}
CookieName(host) ==
    IF host = EbscoHost THEN "ebsco"
    ELSE IF host = IdpHost THEN "idp"
    ELSE IF host = MotorHost THEN "msid"
    ELSE "track"
\* The Set-Cookie header a host sends during attempt number n; the identity
\* provider's value is base64 text that ends with padding.
SetCookieOf(host, n) ==
    IF host = IdpHost
    THEN <<" ", CookieName(host), "=", "v", ToString(n), "=", "=", ";", " Path=/",
           ";", " HttpOnly">>
    ELSE <<" ", CookieName(host), "=", "v", ToString(n), ";", " Path=/", ";",
           " HttpOnly">>
ResponseCookies(host, sets, n) ==
    IF host \in sets THEN <<SetCookieOf(host, n)>> ELSE <<>>
StoredValue == "v0"
InitialDocs ==
    {NoDoc,
     [exists |-> TRUE,
      cookies |-> <<[name |-> "msid", value |-> StoredValue, domain |-> MotorHost]>>,
      timestamp |-> T0 - maxSessionAge + 1]}
TickSteps == {1}
Kinds == {"v1", "api"}

\* ----------------------------------------------------------------- Init
Init ==
    /\ authManager = NewAuthManager
    /\ store \in InitialDocs
    /\ authInitialized = FALSE
    /\ authInitPromise = "null"
    /\ now = T0
    /\ pc = [t \in Tasks |-> "idle"]
    /\ req = [t \in Tasks |-> NoReq]
    /\ fwd = [t \in Tasks |-> NoHeaders]
    /\ waitOn = [t \in Tasks |-> Null]
    /\ outcome = [t \in Tasks |-> "none"]
    /\ ready = {}
    /\ hs = [t \in Tasks |-> NoHandshake]
    /\ ev = NoEv
    /\ nRequests = 0
    /\ nAttempts = 0
    /\ nTicks = 0

\* ------------------------------------------------- request headers
userAgent == "Mozilla/5.0 (Macintosh; Intel Mac OS X 10_15_7)"
vendorReferer == "https://sites.motor.com/m1/"
\* The headers an inbound caller sends; cookie: its own Cookie header, if any.
CallerCookies == {<<>>, <<"sid", "=", "caller">>}
CallerHeaders(cookie) ==
    [cookie |-> cookie, userAgent |-> "caller-agent", referer |-> "",
     xRequestedWith |-> ""]

\* Variant: a Cookie header sent by the caller is kept
injectHeadersKeepingCaller(headers, cookieHeader) ==
    [headers EXCEPT !.cookie = IF @ # <<>> THEN @ ELSE cookieHeader,
                    !.userAgent = userAgent,
                    !.referer = vendorReferer,
                    !.xRequestedWith = "XMLHttpRequest"]
\* function.js 103-106: the middleware writes the request headers
injectHeaders(headers, cookieHeader) ==
    [headers EXCEPT !.cookie = cookieHeader,
                    !.userAgent = userAgent,
                    !.referer = vendorReferer,
                    !.xRequestedWith = "XMLHttpRequest"]

\* function.js 257-278: /api onProxyReq, applied to every request it proxies
apiOnProxyReq(headers) ==
    [headers EXCEPT !.cookie = IF headers.cookie # <<>> THEN headers.cookie ELSE @,
                    !.referer = vendorReferer,
                    !.userAgent = userAgent,
                    !.xRequestedWith = "XMLHttpRequest"]

\* Variant: the session cookies are appended to the caller's Cookie header
forwardedHeadersMerging(rq, cookieHeader) ==
    LET h == IF rq.method = "OPTIONS" THEN rq.headers
             ELSE injectHeaders(rq.headers,
                                IF rq.headers.cookie = <<>> THEN cookieHeader
                                ELSE rq.headers.cookie \o <<"; ">> \o cookieHeader)
    IN  IF rq.kind = "api" THEN apiOnProxyReq(h) ELSE h
\* The headers request rq goes upstream with: a preflight skips the
\* middleware's injection (function.js 74-76); the proxy copies req.headers.
forwardedHeaders(rq, cookieHeader) ==
    LET h == IF rq.method = "OPTIONS" THEN rq.headers
             ELSE injectHeaders(rq.headers, cookieHeader)
    IN  IF rq.kind = "api" THEN apiOnProxyReq(h) ELSE h

\* ------------------------------------------------------- step plumbing
\* Where a task is after a run: a handler that has answered is over ("idle")
\* unless the authenticate() call it detached is still pending ("detached").
EndPc(R) ==
    IF R.pc # "done" THEN R.pc
    ELSE IF R.waitOn # Null THEN "detached" ELSE "idle"

\* The effects of a run R of task t on request rq; woken: tasks released by
\* this run, with the outcome they observe.
Commit(t, R, rq, woken, wokenOutcome, op, loaded) ==
    /\ R.auth = "start" => nAttempts < MaxAttempts
    /\ authManager' = R.am
    /\ pc' = [pc EXCEPT ![t] = EndPc(R)]
    /\ req' = [req EXCEPT ![t] =
                  IF EndPc(R) = "idle" THEN NoReq
                  ELSE IF R.auth = "start" /\ op # "response"
                       THEN [rq EXCEPT !.started = @ + 1]
                       ELSE rq]
    /\ fwd' = [fwd EXCEPT ![t] = IF EndPc(R) = "forwarded"
                                  THEN forwardedHeaders(rq, R.fwd) ELSE NoHeaders]
    /\ waitOn' = [waitOn EXCEPT ![t] = R.waitOn]
    /\ outcome' = [u \in Tasks |->
                      IF u = t
                      THEN (IF EndPc(R) \in AwaitAuthPcs THEN R.outcome ELSE "none")
                      ELSE IF u \in woken THEN wokenOutcome ELSE outcome[u]]
    /\ hs' = IF R.auth = "start" THEN [hs EXCEPT ![t] = FirstRequest] ELSE hs
    /\ ready' = ((ready \ {t}) \cup woken)
                \cup (IF R.auth = "stale" /\ R.pc \in AwaitAuthPcs THEN {t} ELSE {})
    /\ nAttempts' = IF R.auth = "start" THEN nAttempts + 1 ELSE nAttempts
    /\ ev' = Ev(op, t, R.auth, loaded, "none", [NoGot EXCEPT ![t] = R.outcome],
                IF R.res.status = 0 THEN NoRes ELSE [R.res EXCEPT !.kind = rq.kind])

\* The attempt of task o settles with outcome r (part_003 336-342): the
\* initiator's finally runs first, then every call awaiting it is released.
Settle(o, r, am) ==
    LET got == [u \in Tasks |->
                   IF waitOn[u] # o THEN "none"
                   ELSE IF u = o THEN InitiatorResult(r) ELSE WaiterResult(r)]
    IN  /\ authManager' = [am EXCEPT !.authPromise = FinallyClear(@, o, r)]
        /\ hs' = [hs EXCEPT ![o] = NoHandshake]
        /\ waitOn' = [u \in Tasks |-> IF waitOn[u] = o THEN Null ELSE waitOn[u]]
        /\ outcome' = [u \in Tasks |->
                          IF waitOn[u] = o /\ pc[u] \in AwaitAuthPcs THEN got[u]
                          ELSE outcome[u]]
        /\ pc' = [u \in Tasks |->
                     IF waitOn[u] = o /\ pc[u] = "detached" THEN "idle" ELSE pc[u]]
        /\ req' = [u \in Tasks |->
                      IF waitOn[u] = o /\ pc[u] = "detached" THEN NoReq ELSE req[u]]
        /\ ready' = ready \cup {u \in Tasks : waitOn[u] = o /\ pc[u] \in AwaitAuthPcs}
        /\ ev' = Ev("settle", o, "none", FALSE, r, got, NoRes)

\* Requests take the lowest idle slot (slots are interchangeable).
Slot(t) == pc[t] = "idle" /\ \A u \in Tasks : u < t => pc[u] # "idle"
Arrives(t) == ready = {} /\ nRequests < MaxRequests /\ Slot(t)
Request(kind, method, cookie) ==
    [kind |-> kind, method |-> method, valid |-> isSessionValid(authManager, now),
     started |-> 0,
     headers |-> CallerHeaders(cookie)]
InitWaiters == {u \in Tasks : pc[u] = "init_wait"}
\* Variant: a first request does not look for an initialization in progress
initializeAuthGateUnshared(initialized, promise) ==
    IF initialized THEN "done" ELSE "run"
\* function.js 80-82, 354-360: what a request does about initialization:
\* nothing once it is done, await the one in progress, or run the body
initializeAuthGate(initialized, promise) ==
    IF initialized THEN "done"
    ELSE IF promise # "null" THEN "wait"
    ELSE "run"

\* -------------------------------------------------- proxy response handlers
UpstreamStatuses == {200, 401, 403}
IsAuthFailure(status) == status = 401 \/ status = 403

\* Variant: the polling hint is left out
authAdvisoryHeadersNoRetry ==
    {<<"x-auth-status", "authenticating">>, <<"x-auth-status-url", "/auth/status">>}
\* function.js 235-238 / 326-328: the headers that tell the client to poll
authAdvisoryHeaders ==
    {<<"x-auth-status", "authenticating">>, <<"x-auth-status-url", "/auth/status">>,
     <<"x-retry-after", "2">>}

\* The headers of an upstream response: a bare one, and one that sets a
\* cookie and names its server software.
UpstreamHeaders ==
    {{<<"content-type", "application/json">>},
     {<<"content-type", "application/json">>, <<"set-cookie", "msid=upstream">>,
      <<"server", "Microsoft-IIS/10.0">>, <<"x-powered-by", "ASP.NET">>}}
\* res.setHeader(name, value) / proxyRes.headers[name] = value, for each pair
setHeaders(headers, pairs) ==
    {h \in headers : \A p \in pairs : p[1] # h[1]} \cup pairs
\* Variant: only the cookie is removed
stripUpstreamHeadersCookieOnly(headers) ==
    {h \in headers : h[1] # "set-cookie"}
\* function.js 213-216 / 290-293: the upstream headers that are not passed on
stripUpstreamHeaders(headers) ==
    {h \in headers : h[1] \notin {"set-cookie", "server", "x-powered-by"}}

\* The paths of proxied requests, as segments: a static reference listing
\* and a per-vehicle resource.
RequestPaths == {<<"/years">>, <<"/vehicles", "/2020">>}
\* function.js 219 / 296: req.path.includes('/years') || includes('/makes')
isStaticPath(path) ==
    \E i \in 1..Len(path) : path[i] \in {"/years", "/makes"}
\* function.js 218-221 / 295-298: the 24-hour cache lifetime, set before the
\* status of the upstream response is looked at
cacheStatic(path, headers) ==
    IF isStaticPath(path)
    THEN setHeaders(headers, {<<"cache-control", "public, max-age=86400">>})
    ELSE headers

\* function.js 203-241: /v1 onProxyRes, the upstream status is passed through
v1OnProxyRes(t, am, status, headers, path) ==
    IF IsAuthFailure(status)
    THEN LET c == onAuthFailure(t, am)
         IN  Run(c.am, "done", c, <<>>,
                 [NoRes EXCEPT !.status = status, !.upstream = status,
                               !.received = headers,
                               !.body = "upstream",
                               !.headers =
                                   setHeaders(
                                       cacheStatic(path, stripUpstreamHeaders(headers)),
                                       authAdvisoryHeaders)])
    ELSE Run(am, "done", NoCall, <<>>,
             [NoRes EXCEPT !.status = status, !.upstream = status,
                               !.received = headers,
                           !.body = "upstream",
                           !.headers =
                               cacheStatic(path, stripUpstreamHeaders(headers))])

\* function.js 280-337: /api responseInterceptor, 401/403 replaced by a 401 body
apiResponseInterceptor(t, am, status, headers, path) ==
    IF IsAuthFailure(status)
    THEN LET c == onAuthFailure(t, am)
         IN  Run(c.am, "done", c, <<>>,
                 [NoRes EXCEPT !.status = 401, !.upstream = status,
                               !.received = headers,
                               !.body = "Authentication required",
                               !.fields = {"error", "message", "status", "authStatus",
                                           "authStatusUrl", "retryAfter",
                                           "pollInterval"},
                               !.authStatus = "authenticating",
                               !.headers =
                                   setHeaders(
                                       cacheStatic(path, stripUpstreamHeaders(headers)),
                                       authAdvisoryHeaders
                                       \cup {<<"content-type", "application/json">>})])
    ELSE Run(am, "done", NoCall, <<>>,
             [NoRes EXCEPT !.status = status, !.upstream = status,
                               !.received = headers,
                           !.body = "upstream",
                           !.headers =
                               cacheStatic(path, stripUpstreamHeaders(headers))])

\* Variant: a transport error is handled like an upstream 401
onErrorInvalidating(t, am) ==
    LET c == onAuthFailure(t, am)
    IN  Run(c.am, "done", c, <<>>,
            [NoRes EXCEPT !.status = 500, !.body = "Proxy Error"])
\* function.js 242-247 / 339-344: onError of both proxies
onError(t, am) ==
    Run(am, "done", NoCall, <<>>,
        [NoRes EXCEPT !.status = 500, !.body = "Proxy Error"])

\* ---------------------------------------------------------------- actions
\* GET /health (function.js 30-36)
Health(t) ==
    /\ Arrives(t)
    /\ Commit(t, Run(authManager, "done", NoCall, <<>>,
                     [NoRes EXCEPT !.status = 200, !.body = "ok",
                          !.fields = {"status", "sessionValid", "lastAuth"},
                          !.sessionValid = isSessionValid(authManager, now),
                          !.lastAuth = authManager.lastAuthTime]),
              Request("health", "GET", <<>>), {}, "none", "health", FALSE)
    /\ nRequests' = nRequests + 1
    /\ UNCHANGED <<store, authInitialized, authInitPromise, now, nTicks>>

\* GET /auth/status (function.js 39-46)
AuthStatus(t) ==
    /\ Arrives(t)
    /\ Commit(t, Run(authManager, "done", NoCall, <<>>,
                     [NoRes EXCEPT !.status = 200,
                          !.body = getProgress(authManager).fields.status,
                          !.fields = DOMAIN getProgress(authManager).fields
                                         \cup {"sessionValid", "lastAuth"},
                          !.sessionValid = isSessionValid(authManager, now),
                          !.lastAuth = authManager.lastAuthTime]),
              Request("status", "GET", <<>>), {}, "none", "status", FALSE)
    /\ nRequests' = nRequests + 1
    /\ UNCHANGED <<store, authInitialized, authInitPromise, now, nTicks>>

\* POST /auth/start (function.js 49-69)
AuthStart(t) ==
    /\ Arrives(t)
    /\ LET c == authStart(t, authManager)
       IN  Commit(t, Run(c.am, "done", c, <<>>,
                         [NoRes EXCEPT !.status = 200, !.body = "started",
                                       !.fields = {"status", "message"}]),
                  Request("start", "POST", <<>>), {}, "none", "start", FALSE)
    /\ nRequests' = nRequests + 1
    /\ UNCHANGED <<store, authInitialized, authInitPromise, now, nTicks>>

\* OPTIONS on /v1 or /api: authMiddleware skips authentication (function.js 74-76)
Preflight(t, kind, cookie) ==
    /\ Arrives(t)
    /\ Commit(t, Run(authManager, "forwarded", NoCall, <<>>, NoRes),
              Request(kind, "OPTIONS", cookie), {}, "none", "preflight", FALSE)
    /\ nRequests' = nRequests + 1
    /\ UNCHANGED <<store, authInitialized, authInitPromise, now, nTicks>>

\* A request on /v1 or /api enters authMiddleware (function.js 72-96) and
\* initializeAuth (function.js 353-385)
ProxyRequest(t, kind, cookie) ==
    /\ Arrives(t)
    /\ IF initializeAuthGate(authInitialized, authInitPromise) # "done"
       THEN IF initializeAuthGate(authInitialized, authInitPromise) = "wait"
            THEN /\ Commit(t, Run(authManager, "init_wait", NoCall, <<>>, NoRes),
                           Request(kind, "GET", cookie), {}, "none", "request", FALSE)
                 /\ UNCHANGED authInitPromise
            ELSE /\ Commit(t, Run(authManager, "init_load", NoCall, <<>>, NoRes),
                           Request(kind, "GET", cookie), {}, "none", "request", FALSE)
                 /\ authInitPromise' = "pending"
       ELSE /\ Commit(t, ensureSession(t, authManager), Request(kind, "GET", cookie),
                      {}, "none", "request", FALSE)
            /\ UNCHANGED authInitPromise
    /\ nRequests' = nRequests + 1
    /\ UNCHANGED <<store, authInitialized, now, nTicks>>

\* The Firestore read of initializeAuth's loadSession() completes
InitLoadDone(t, readOk) ==
    /\ ready = {}
    /\ pc[t] = "init_load"
    /\ LET l == loadSession(authManager, store, readOk)
           R == initAfterLoad(t, l)
       IN  IF R.pc = "init_auth"
           THEN /\ Commit(t, R, req[t], {}, "none", "load", readOk /\ store.exists)
                /\ UNCHANGED <<authInitialized, authInitPromise>>
           ELSE /\ Commit(t, R, req[t], InitWaiters, "ok", "load",
                          readOk /\ store.exists)
                /\ authInitialized' = TRUE
                /\ authInitPromise' = "fulfilled"
    /\ UNCHANGED <<store, now, nRequests, nTicks>>

\* The Firestore read of the middleware's loadSession() completes
MwLoadDone(t, readOk) ==
    /\ ready = {}
    /\ pc[t] = "mw_load"
    /\ Commit(t, afterLoad(t, loadSession(authManager, store, readOk)), req[t],
              {}, "none", "load", readOk /\ store.exists)
    /\ UNCHANGED <<store, authInitialized, authInitPromise, now, nRequests, nTicks>>

\* initializeAuth resumes after its authenticate() settled (function.js 368-381)
ResumeInitAuth(t) ==
    /\ t \in ready
    /\ pc[t] = "init_auth"
    /\ authInitialized' = TRUE
    /\ IF outcome[t] = "ok"
       THEN /\ authInitPromise' = "fulfilled"
            /\ Commit(t, ensureSession(t, authManager), req[t], InitWaiters, "ok",
                      "resume", FALSE)
       ELSE /\ authInitPromise' = "rejected"
            /\ Commit(t, fail500(authManager, outcome[t]), req[t], InitWaiters,
                      outcome[t], "resume", FALSE)
    /\ UNCHANGED <<store, now, nRequests, nTicks>>

\* A request that awaited authInitPromise resumes (function.js 357-360, 82)
ResumeInitWait(t) ==
    /\ t \in ready
    /\ pc[t] = "init_wait"
    /\ Commit(t, IF outcome[t] = "ok" THEN ensureSession(t, authManager)
                 ELSE fail500(authManager, outcome[t]),
              req[t], {}, "none", "resume", FALSE)
    /\ UNCHANGED <<store, authInitialized, authInitPromise, now, nRequests, nTicks>>

\* The middleware resumes after its own authenticate() settled (function.js 93-98)
ResumeMwAuth(t) ==
    /\ t \in ready
    /\ pc[t] = "mw_auth"
    /\ Commit(t, IF outcome[t] = "ok" THEN getCookies(t, authManager)
                 ELSE fail500(authManager, outcome[t]),
              req[t], {}, "none", "resume", FALSE)
    /\ UNCHANGED <<store, authInitialized, authInitPromise, now, nRequests, nTicks>>

\* getCookies() resumes after its authenticate() settled (part_003 350-352)
ResumeGcAuth(t) ==
    /\ t \in ready
    /\ pc[t] = "gc_auth"
    /\ Commit(t, IF outcome[t] = "ok" THEN attachAndForward(t, authManager)
                 ELSE fail500(authManager, outcome[t]),
              req[t], {}, "none", "resume_gc", FALSE)
    /\ UNCHANGED <<store, authInitialized, authInitPromise, now, nRequests, nTicks>>

\* The upstream answers a request forwarded on /v1. The request's path is
\* read by the response handler only, so it is drawn where it is read.
V1Response(t, status, headers, path) ==
    /\ ready = {}
    /\ pc[t] = "forwarded"
    /\ req[t].kind = "v1"
    /\ Commit(t, v1OnProxyRes(t, authManager, status, headers, path), req[t], {}, "none",
              "response", FALSE)
    /\ UNCHANGED <<store, authInitialized, authInitPromise, now, nRequests, nTicks>>

\* The upstream answers a request forwarded on /api
ApiResponse(t, status, headers, path) ==
    /\ ready = {}
    /\ pc[t] = "forwarded"
    /\ req[t].kind = "api"
    /\ Commit(t, apiResponseInterceptor(t, authManager, status, headers, path),
              req[t], {}, "none", "response", FALSE)
    /\ UNCHANGED <<store, authInitialized, authInitPromise, now, nRequests, nTicks>>

\* The upstream cannot be reached (function.js 242-247, 339-344)
ProxyError(t) ==
    /\ ready = {}
    /\ pc[t] = "forwarded"
    /\ Commit(t, onError(t, authManager), req[t], {}, "none", "proxyerror", FALSE)
    /\ UNCHANGED <<store, authInitialized, authInitPromise, now, nRequests, nTicks>>

\* A response arrives inside the redirect loop of task o's handshake; the
\* first response fixes the chain the login servers follow, one of `scripts`
HsResponse(o, scripts) ==
    /\ ready = {}
    /\ hs[o].pc = "loop"
    /\ \E sc \in IF hs[o].left = Null THEN scripts
                 ELSE {Script(hs[o].left, hs[o].final, hs[o].sets)} :
          LET location == IF sc.left = 1 THEN sc.final ELSE IdpUrl
              cookies == ResponseCookies(hs[o].currentUrl.host, sc.sets, nAttempts)
              n == loopResponse(authManager, hs[o], sc.left > 0, location, cookies)
              left == IF sc.left > 0 THEN sc.left - 1 ELSE 0
          IN  /\ authManager' = n.am
              /\ hs' = [hs EXCEPT ![o] = [n.h EXCEPT !.left = left,
                                                     !.final = sc.final,
                                                     !.sets = sc.sets]]
    /\ ev' = Ev("hop", o, "none", FALSE, "none", NoGot, NoRes)
    /\ UNCHANGED <<store, authInitialized, authInitPromise, now, pc, req, fwd,
                   waitOn, outcome, ready, nRequests, nAttempts, nTicks>>

\* The response of the final request to sites.motor.com/m1 arrives
HsFinalResponse(o) ==
    /\ ready = {}
    /\ hs[o].pc = "final"
    /\ LET cookies == ResponseCookies(motorUrl.host, hs[o].sets, nAttempts)
           n == finalResponse(authManager, hs[o], cookies)
       IN  /\ authManager' = n.am
           /\ hs' = [hs EXCEPT ![o] = n.h]
    /\ ev' = Ev("final", o, "none", FALSE, "none", NoGot, NoRes)
    /\ UNCHANGED <<store, authInitialized, authInitPromise, now, pc, req, fwd,
                   waitOn, outcome, ready, nRequests, nAttempts, nTicks>>

\* A request of the handshake fails at the network level (part_003 89, 329-335)
HsError(o, message) ==
    /\ ready = {}
    /\ hs[o].pc \in {"loop", "final"}
    /\ Settle(o, message, failAttempt(authManager, message))
    /\ UNCHANGED <<store, authInitialized, authInitPromise, now, fwd, nRequests,
                   nAttempts, nTicks>>

\* The Firestore write of saveSession() completes (part_003 183-188, 326-327)
HsSaved(o, writeOk) ==
    /\ ready = {}
    /\ hs[o].pc = "saving"
    /\ store' = saveSession(store, hs[o].session, writeOk)
    /\ LET r == saveSessionResult(writeOk)
       IN  Settle(o, r, IF r = "ok" THEN succeedAttempt(authManager)
                        ELSE failAttempt(authManager, r))
    /\ UNCHANGED <<authInitialized, authInitPromise, now, fwd, nRequests,
                   nAttempts, nTicks>>

\* Time passes
Tick(d) ==
    /\ ready = {}
    /\ nTicks < MaxTicks
    /\ now' = now + d
    /\ nTicks' = nTicks + 1
    /\ ev' = Ev("tick", Null, "none", FALSE, "none", NoGot, NoRes)
    /\ UNCHANGED <<authManager, store, authInitialized, authInitPromise, pc, req,
                   fwd, waitOn, outcome, ready, hs, nRequests, nAttempts>>

Next ==
    \/ \E t \in Tasks : Health(t)
    \/ \E t \in Tasks : AuthStatus(t)
    \/ \E t \in Tasks : AuthStart(t)
    \/ \E t \in Tasks, kind \in Kinds, cookie \in CallerCookies :
          Preflight(t, kind, cookie)
    \/ \E t \in Tasks, kind \in Kinds, cookie \in CallerCookies :
          ProxyRequest(t, kind, cookie)
    \/ \E t \in Tasks, readOk \in BOOLEAN : InitLoadDone(t, readOk)
    \/ \E t \in Tasks, readOk \in BOOLEAN : MwLoadDone(t, readOk)
    \/ \E t \in Tasks : ResumeInitAuth(t)
    \/ \E t \in Tasks : ResumeInitWait(t)
    \/ \E t \in Tasks : ResumeMwAuth(t)
    \/ \E t \in Tasks : ResumeGcAuth(t)
    \/ \E t \in Tasks, status \in UpstreamStatuses, headers \in UpstreamHeaders,
          path \in RequestPaths :
          V1Response(t, status, headers, path)
    \/ \E t \in Tasks, status \in UpstreamStatuses, headers \in UpstreamHeaders,
          path \in RequestPaths :
          ApiResponse(t, status, headers, path)
    \/ \E t \in Tasks : ProxyError(t)
    \/ \E o \in Tasks : HsResponse(o, GatewayScripts)
    \/ \E o \in Tasks : HsFinalResponse(o)
    \/ \E o \in Tasks, message \in Errors : HsError(o, message)
    \/ \E o \in Tasks, writeOk \in BOOLEAN : HsSaved(o, writeOk)
    \/ \E d \in TickSteps : Tick(d)

Spec == Init /\ [][Next]_vars

\* ------------------------------------------------- logins started by hand
\* The login handshake alone, against every chain of LoginScripts: attempts
\* are started by POST /auth/start and observed by GET /auth/status.
NextLogin ==
    \/ \E t \in Tasks : AuthStart(t)
    \/ \E t \in Tasks : AuthStatus(t)
    \/ \E o \in Tasks : HsResponse(o, LoginScripts)
    \/ \E o \in Tasks : HsFinalResponse(o)
    \/ \E o \in Tasks, message \in Errors : HsError(o, message)
    \/ \E o \in Tasks, writeOk \in BOOLEAN : HsSaved(o, writeOk)

SpecLogin == Init /\ [][NextLogin]_vars

\* ------------------------------------------------ callers of getProgress()
\* What a caller of getProgress() writes into the object it received
CallerWrites == {<<"status", "error">>, <<"progress", 55>>, <<"completedAt", 0>>}
\* A caller of getProgress() changes a field of the object returned
CallerChangesProgress(field, value) ==
    /\ ready = {}
    /\ authManager' = assignField(authManager, getProgress(authManager), field, value)
    /\ ev' = Ev("poll", Null, "none", FALSE, "none", NoGot, NoRes)
    /\ UNCHANGED <<store, authInitialized, authInitPromise, now, pc, req, fwd,
                   waitOn, outcome, ready, hs, nRequests, nAttempts, nTicks>>

\* The handshake with its pollers: /health, /auth/status and a caller of
\* getProgress() that writes into what it received
NextPoll ==
    \/ NextLogin
    \/ \E t \in Tasks : Health(t)
    \/ \E w \in CallerWrites : CallerChangesProgress(w[1], w[2])

SpecPoll == Init /\ [][NextPoll]_vars

\* The same, when every request of the handshake and the write of the
\* session record are eventually answered (httpsRequest and saveSession()
\* have no timeout of their own: part_003 55-92, 176-189).  This is weak
\* fairness of the three completions, WF_vars(A) written out as
\* []<>(~ENABLED <<A>>_vars) \/ []<><<A>>_vars with the enabling condition of
\* each action, its guard, stated in place of ENABLED.
SpecLoginFair ==
    /\ SpecLogin
    /\ \A o \in Tasks :
          /\ \/ []<>(~(ready = {} /\ hs[o].pc = "loop"))
             \/ []<><<HsResponse(o, LoginScripts)>>_vars
          /\ \/ []<>(~(ready = {} /\ hs[o].pc = "final"))
             \/ []<><<HsFinalResponse(o)>>_vars
          /\ \/ []<>(~(ready = {} /\ hs[o].pc = "saving"))
             \/ []<><<\E writeOk \in BOOLEAN : HsSaved(o, writeOk)>>_vars

\* ------------------------------------------------ the validity predicate
\* isSessionValid() on every Session a stored record can put in memory: the
\* record's cookies and timestamp are whatever the document holds.
SessionCookies ==
    {<<>>, <<[name |-> "msid", value |-> StoredValue, domain |-> MotorHost]>>}
SessionTimestamps ==
    {Null, 0, T0 - maxSessionAge - 1, T0 - maxSessionAge, T0 - maxSessionAge + 1,
     T0 - 1, T0}
InitValid ==
    /\ authManager \in {[NewAuthManager EXCEPT !.cookies = c, !.lastAuthTime = ts] :
                            c \in SessionCookies, ts \in SessionTimestamps}
    /\ store \in InitialDocs
    /\ authInitialized = FALSE
    /\ authInitPromise = "null"
    /\ now = T0
    /\ pc = [t \in Tasks |-> "idle"]
    /\ req = [t \in Tasks |-> NoReq]
    /\ fwd = [t \in Tasks |-> NoHeaders]
    /\ waitOn = [t \in Tasks |-> Null]
    /\ outcome = [t \in Tasks |-> "none"]
    /\ ready = {}
    /\ hs = [t \in Tasks |-> NoHandshake]
    /\ ev = NoEv
    /\ nRequests = 0
    /\ nAttempts = 0
    /\ nTicks = 0

NextValid ==
    \/ \E t \in Tasks : Health(t)
    \/ \E t \in Tasks : AuthStatus(t)
    \/ \E d \in TickSteps : Tick(d)

SpecValid == InitValid /\ [][NextValid]_vars

\* ------------------------------------------------- invalidateSession()
\* invalidateSession() called on the manager, on every Session of InitValid
InvalidateSession(t) ==
    /\ Arrives(t)
    /\ authManager' = invalidateSession(authManager)
    /\ pc' = [pc EXCEPT ![t] = "deleting"]
    /\ nRequests' = nRequests + 1
    /\ ev' = Ev("invalidate", t, "none", FALSE, "none", NoGot, NoRes)
    /\ UNCHANGED <<store, authInitialized, authInitPromise, now, req, fwd, waitOn,
                   outcome, ready, hs, nAttempts, nTicks>>

\* The Firestore delete completes and invalidateSession() returns; result: how
\* the delete ended, got: what the caller of invalidateSession() receives
DeleteDone(t, deleteOk) ==
    /\ ready = {}
    /\ pc[t] = "deleting"
    /\ store' = deleteSession(store, deleteOk)
    /\ pc' = [pc EXCEPT ![t] = "idle"]
    /\ ev' = Ev("invalidated", t, "none", FALSE,
                IF deleteOk THEN "ok" ELSE "UNAVAILABLE",
                [NoGot EXCEPT ![t] = deleteSessionResult(deleteOk)], NoRes)
    /\ UNCHANGED <<authManager, authInitialized, authInitPromise, now, req, fwd,
                   waitOn, outcome, ready, hs, nRequests, nAttempts, nTicks>>

NextInvalidate ==
    \/ \E t \in Tasks : InvalidateSession(t)
    \/ \E t \in Tasks, deleteOk \in BOOLEAN : DeleteDone(t, deleteOk)
    \/ \E t \in Tasks : Health(t)
    \/ \E d \in TickSteps : Tick(d)

SpecInvalidate == InitValid /\ [][NextInvalidate]_vars

\* ------------------------------------------------ the Cookie header
\* getCookieHeader() on every Session a stored record can put in memory, as
\* the middleware calls it once initialization has loaded that record. A name
\* or value that is the token "=" or "; " stands for one containing it.
HeaderNames == {"a", "b", "=", "; "}
HeaderValues == {"x", "=", "; "}
HeaderCookie == [name : HeaderNames, value : HeaderValues, domain : {MotorHost}]
HeaderSessions ==
    UNION {[1..n -> HeaderCookie] : n \in 1..MaxCookies}
InitHeader ==
    /\ \E c \in HeaderSessions :
          /\ authManager = [NewAuthManager EXCEPT !.cookies = c, !.lastAuthTime = T0]
          /\ store = [exists |-> TRUE, cookies |-> c, timestamp |-> T0]
    /\ authInitialized = TRUE
    /\ authInitPromise = "fulfilled"
    /\ now = T0
    /\ pc = [t \in Tasks |-> "idle"]
    /\ req = [t \in Tasks |-> NoReq]
    /\ fwd = [t \in Tasks |-> NoHeaders]
    /\ waitOn = [t \in Tasks |-> Null]
    /\ outcome = [t \in Tasks |-> "none"]
    /\ ready = {}
    /\ hs = [t \in Tasks |-> NoHandshake]
    /\ ev = NoEv
    /\ nRequests = 0
    /\ nAttempts = 0
    /\ nTicks = 0

NextHeader ==
    \/ \E t \in Tasks, kind \in Kinds, cookie \in CallerCookies :
          ProxyRequest(t, kind, cookie)
    \/ \E t \in Tasks : ProxyError(t)

SpecHeader == InitHeader /\ [][NextHeader]_vars

\* ================================================================ claims
Running == {t \in Tasks : hs[t].pc # "none"}
Session(am) == [cookies |-> am.cookies, timestamp |-> am.lastAuthTime]
\* The calls of authenticate() that the attempt of task o would release
Awaiting(o) == {u \in Tasks : waitOn[u] = o}

\* C1: at every moment at most one login handshake is executing, whichever
\* callers of authenticate() interleave.
C1_AtMostOneHandshake == Cardinality(Running) <= 1
\* A 401/403 handler has joined the handshake another caller started.
C1_Witness ==
    /\ ev.op = "response" /\ ev.auth = "join"
    /\ \E o \in Running : Awaiting(o) = Tasks

\* C2: the authenticate() calls that overlap all await one handshake, and when
\* it settles each of them is released with that handshake's outcome: "ok" iff
\* the attempt succeeded, otherwise the error the attempt failed with.
C2_AllCallsShareOutcome ==
    [][/\ \A u \in Tasks : waitOn[u] # Null =>
              /\ Running = {waitOn[u]}
              /\ authManager.authPromise.owner = waitOn[u]
       /\ ev'.op = "settle" =>
              \A u \in Awaiting(ev'.by) :
                  /\ waitOn'[u] = Null
                  /\ ev'.got[u] = ev'.result
                  /\ ev'.got[u] = "ok" <=> authManager'.authProgress.status = "success"
                  /\ ev'.got[u] # "ok" =>
                         /\ authManager'.authProgress.status = "error"
                         /\ ev'.got[u] = authManager'.authProgress.error
                  /\ pc[u] \in AwaitAuthPcs => u \in ready' /\ outcome'[u] = ev'.result]_vars
\* Two overlapping calls have both been rejected with the attempt's error.
C2_Witness ==
    /\ ev.op = "settle"
    /\ \A u \in Tasks : ev.got[u] = "ECONNRESET"
    /\ \E u \in ready : outcome[u] = "ECONNRESET"

\* C3: when an attempt settles, by success or by failure, authPromise is
\* cleared, and an authenticate() call made while no handshake is executing
\* starts a fresh handshake instead of receiving a finished attempt's outcome.
C3_MarkerCleared ==
    [][/\ ev'.op = "settle" => authManager'.authPromise = NoPromise
       /\ (ev'.auth # "none" /\ Running = {}) =>
              /\ ev'.auth = "start"
              /\ Running' = {ev'.by}
              /\ hs'[ev'.by] = FirstRequest]_vars
\* A second attempt has started after a failed one.
C3_Witness ==
    /\ ev.auth = "start" /\ nAttempts = 2
    /\ authManager.authProgress.status = "authenticating"
    /\ store = NoDoc /\ authManager.cookies = <<>>

\* C4: a handshake can fail only before the extraction; the failing attempt
\* sets AuthProgress to error with the failure message, rejects the initiator
\* and every waiter with that message, and none of its steps touches the
\* Session's cookies or timestamp.
C4_FailureLeavesSession ==
    [][/\ (ev'.op = "settle" /\ ev'.result # "ok") =>
              /\ hs[ev'.by].pc \in {"loop", "final"}
              /\ Session(authManager') = Session(authManager)
              /\ authManager'.authProgress.status = "error"
              /\ authManager'.authProgress.error = ev'.result
              /\ ev'.by \in Awaiting(ev'.by)
              /\ \A u \in Awaiting(ev'.by) : ev'.got[u] = ev'.result
       /\ (ev'.op \in {"hop", "final"} /\ hs'[ev'.by].pc \in {"loop", "final"}) =>
              Session(authManager') = Session(authManager)]_vars
\* An attempt has failed while a Session with cookies was in memory.
C4_Witness ==
    /\ ev.op = "settle" /\ ev.result = "ETIMEDOUT"
    /\ authManager.cookies # <<>>
    /\ authManager.authProgress.error = "ETIMEDOUT"

\* C5: an attempt whose login chain redirects more than maxRedirects times
\* never ends in success: it settles with an error, AuthProgress ends in
\* error, and the Session is not modified.
C5_RedirectLimitFails ==
    [][\A o \in Tasks :
          (hs[o].redirectCount >= maxRedirects /\ hs[o].left > 0
           /\ ev'.op = "settle" /\ ev'.by = o) =>
              /\ ev'.result # "ok"
              /\ authManager'.authProgress.status = "error"
              /\ Session(authManager') = Session(authManager)]_vars

\* C6: isSessionValid() is true iff cookies is non-empty, the timestamp is
\* neither null nor 0 and now - timestamp < maxSessionAge (so it is false at
\* exactly maxSessionAge); GET /health and GET /auth/status report that value
\* whatever the rest of the state, and change no state of the manager or store.
C6_Expected(cookies, timestamp, t) ==
    /\ cookies # <<>>
    /\ timestamp # Null /\ timestamp # 0
    /\ t - timestamp < 24 * 60 * 60 * 1000
C6_SessionValidity ==
    [][ev'.op \in {"health", "status"} =>
          /\ ev'.res.sessionValid =
                 C6_Expected(authManager.cookies, authManager.lastAuthTime, now)
          /\ (now - authManager.lastAuthTime = 24 * 60 * 60 * 1000) =>
                 ~ev'.res.sessionValid
          /\ authManager' = authManager
          /\ store' = store /\ now' = now]_vars
\* GET /health has reported an invalid Session aged exactly maxSessionAge.
C6_Witness ==
    /\ ev.op = "health"
    /\ authManager.cookies # <<>>
    /\ now - authManager.lastAuthTime = maxSessionAge
    /\ nTicks > 0
    /\ ~ev.res.sessionValid

\* C7: the handler of an upstream 401/403 clears the Session (cookies empty,
\* timestamp 0) and resets AuthProgress before it calls authenticate(), so a
\* handshake it starts begins from the reset progress; the response is sent
\* in the same step, while the handshake is still pending: the upstream
\* status on /v1, a 401 body on /api.
C7_InvalidateThenRecover ==
    [][(ev'.op = "response" /\ IsAuthFailure(ev'.res.upstream)) =>
          /\ Session(authManager') = [cookies |-> <<>>, timestamp |-> 0]
          /\ ev'.auth \in {"start", "join"}
          /\ ev'.auth = "start" =>
                 authManager'.authProgress =
                     [IdleProgress EXCEPT !.status = "authenticating",
                                          !.step = "ebsco_login",
                                          !.message = "Connecting to EBSCO...",
                                          !.progress = 10,
                                          !.startedAt = now]
          /\ ev'.auth = "join" => authManager'.authProgress = IdleProgress
          /\ ev'.res.status = IF ev'.res.kind = "v1" THEN ev'.res.upstream ELSE 401
          /\ pc'[ev'.by] = "detached"
          /\ waitOn'[ev'.by] \in Running'
          /\ authManager'.authPromise.state = "pending"]_vars
\* The /api handler of a 403 has started a handshake and answered 401.
C7_Witness ==
    /\ ev.op = "response" /\ ev.res.kind = "api" /\ ev.res.upstream = 403
    /\ ev.auth = "start" /\ ev.res.status = 401
    /\ pc[ev.by] = "detached"

\* C8: when the handshake that a 401/403 handler started or joined succeeds
\* with at least one cookie, the Session is valid.
C8_RecoveryRestoresSession ==
    [][(/\ ev'.op = "settle" /\ ev'.result = "ok"
        /\ hs[ev'.by].session.cookies # <<>>
        /\ \E u \in Awaiting(ev'.by) : pc[u] = "detached" /\ req[u].kind \in Kinds) =>
          isSessionValid(authManager', now')]_vars

\* C9: a non-preflight request that arrived while the Session was valid makes
\* no authenticate() call before it is forwarded.
C9_ValidNeverAuthenticates ==
    [][\A t \in Tasks :
          (/\ ev'.by = t /\ pc[t] # "forwarded"
           /\ req'[t].kind \in Kinds /\ req'[t].method # "OPTIONS"
           /\ req'[t].valid) =>
              ev'.auth = "none"]_vars

\* C10: loadSession() overwrites the in-memory Session only when the in-memory
\* Session is invalid.
C10_LoadOnlyWhenInvalid ==
    [][ev'.loaded => ~isSessionValid(authManager, now)]_vars

Status == authManager.authProgress.status
Terminal == {"success", "error"}

\* C11: AuthProgress.status moves only idle -> authenticating -> {success,
\* error}, or is reset by a step that begins a new attempt; while an attempt is
\* running its status never falls back from authenticating to idle.
C11_StatusTransitions ==
    [][/\ Status' # Status =>
              \/ Status = "idle" /\ Status' = "authenticating"
              \/ Status = "authenticating" /\ Status' \in Terminal
              \/ ev'.auth = "start" /\ Status' = "authenticating"
       /\ (Status = "authenticating" /\ Running # {} /\ Running' = Running) =>
              Status' # "idle"]_vars

\* C12: an attempt writes a terminal status exactly when it settles: success
\* iff it succeeded, error otherwise; no other step writes a terminal status,
\* and no attempt settles leaving the status idle or authenticating.
C12_TerminalOncePerAttempt ==
    [][/\ ev'.op = "settle" =>
              /\ Status' = IF ev'.result = "ok" THEN "success" ELSE "error"
              /\ hs[ev'.by].pc # "none" /\ hs'[ev'.by].pc = "none"
       /\ (Status' \in Terminal
           /\ authManager'.authProgress # authManager.authProgress) =>
              ev'.op = "settle"]_vars
\* The second attempt of a run has settled with success.
C12_Witness ==
    /\ ev.op = "settle" /\ ev.result = "ok"
    /\ Status = "success" /\ nAttempts = 2
    /\ authManager.authProgress.error = NullStr

\* C13: the Cookie header is the Session's cookies in order, each as name,
\* "=", value, joined by "; "; when no name or value contains ";" or "=",
\* splitting the header at "; " and each part at "=" gives back the pairs.
C13_Expected(cs) ==
    [i \in 1..(4 * Len(cs) - 1) |->
        CASE i % 4 = 1 -> cs[(i + 3) \div 4].name
          [] i % 4 = 2 -> "="
          [] i % 4 = 3 -> cs[(i + 1) \div 4].value
          [] OTHER -> "; "]
C13_Pairs(cs) == [i \in 1..Len(cs) |-> <<cs[i].name, cs[i].value>>]
C13_Parse(h) ==
    LET segs == split(h, "; ")
    IN  [i \in 1..Len(segs) |->
            LET parts == split(segs[i], "=")
            IN  <<Text(parts[1]), IF Len(parts) >= 2 THEN Text(parts[2]) ELSE "">>]
C13_Clean(cs) ==
    \A i \in 1..Len(cs) : {cs[i].name, cs[i].value} \cap {"=", "; "} = {}
C13_HeaderRoundTrip ==
    \A t \in Tasks :
        (pc[t] = "forwarded" /\ req[t].method # "OPTIONS") =>
            /\ fwd[t].cookie = C13_Expected(authManager.cookies)
            /\ C13_Clean(authManager.cookies) =>
                   C13_Parse(fwd[t].cookie) = C13_Pairs(authManager.cookies)
\* A request has been forwarded with the header of two cookies.
C13_Witness ==
    \E t \in Tasks :
        /\ pc[t] = "forwarded"
        /\ Len(authManager.cookies) = 2
        /\ C13_Clean(authManager.cookies)
        /\ authManager.cookies[1].name # authManager.cookies[2].name
        /\ fwd[t].cookie = <<"b", "=", "x", "; ", "a", "=", "x">>

\* C14: getCookieHeader() calls authenticate() only when the Session is
\* invalid, and then starts or joins one attempt; a request whose Session is
\* valid is forwarded without any authenticate() call; when the awaited
\* attempt fails the request gets that error and no header is forwarded, and
\* when it succeeds the header is the serialization of the Session.
C14_HeaderAuthenticates ==
    [][\A t \in Tasks :
          /\ (ev'.by = t /\ pc[t] # "gc_auth" /\ pc'[t] = "gc_auth") =>
                 /\ ~isSessionValid(authManager', now')
                 /\ ev'.auth \in {"start", "join"}
                 /\ waitOn'[t] \in Running'
          /\ (ev'.by = t /\ pc[t] \notin {"forwarded", "gc_auth"}
              /\ pc'[t] = "forwarded" /\ req'[t].method # "OPTIONS") =>
                 /\ isSessionValid(authManager', now')
                 /\ ev'.auth = "none"
          /\ (ev'.op = "resume_gc" /\ ev'.by = t /\ outcome[t] # "ok") =>
                 /\ ev'.res.status = 500 /\ ev'.res.body = outcome[t]
                 /\ ev'.auth = "none"
                 /\ pc'[t] = "idle" /\ fwd'[t] = NoHeaders
          /\ (ev'.op = "resume_gc" /\ ev'.by = t /\ outcome[t] = "ok"
              /\ pc'[t] = "forwarded") =>
                 fwd'[t].cookie = joinCookies(authManager.cookies)]_vars
\* A request that awaited authenticate() inside getCookieHeader() has been
\* answered with the attempt's error.
C14_Witness ==
    /\ ev.op = "resume_gc"
    /\ ev.res.status = 500 /\ ev.res.body = "ECONNRESET"
    /\ authManager.authProgress.error = "ECONNRESET"

\* C15: every invalidateSession() call returns normally, also when the delete
\* fails, and leaves cookies empty and timestamp 0; when the delete succeeds
\* the stored record is absent, when it fails the store is as it was. A call
\* made on the end state of a call leaves that state as it is.
C15_EndState == Session(authManager) = [cookies |-> <<>>, timestamp |-> 0]
C15_InvalidateIdempotent ==
    [][\A t \in Tasks :
          (ev'.op = "invalidated" /\ ev'.by = t) =>
              /\ ev'.got[t] = "ok"
              /\ C15_EndState'
              /\ ev'.result = "ok" => ~store'.exists
              /\ ev'.result # "ok" => store' = store
              /\ (C15_EndState /\ ~store.exists) =>
                     authManager' = authManager /\ store' = store]_vars
\* A second call in a row has completed on the end state of the first, which
\* had removed a stored record.
C15_Witness ==
    /\ ev.op = "invalidated" /\ ev.result = "ok"
    /\ nRequests = 2 /\ \A t \in Tasks : pc[t] = "idle"
    /\ C15_EndState /\ ~store.exists

\* C16: when the read returns a record, loadSession() replaces cookies and
\* timestamp by the record's and its caller authenticates iff the result is
\* invalid; when the record is absent or the read fails, the Session is left
\* as it was, nothing is thrown, and the caller goes on to authenticate().
C16_LoadSession ==
    [][\A t \in Tasks :
          (ev'.op = "load" /\ ev'.by = t) =>
              /\ ev'.loaded =>
                     /\ Session(authManager') =
                            [cookies |-> store.cookies, timestamp |-> store.timestamp]
                     /\ pc'[t] \in {"init_auth", "mw_auth"}
                            <=> ~isSessionValid(authManager', now)
              /\ ~ev'.loaded =>
                     /\ Session(authManager') = Session(authManager)
                     /\ pc'[t] \in {"init_auth", "mw_auth"}
                     /\ ev'.auth \in {"start", "join"}
                     /\ ev'.res = NoRes]_vars
\* An expired record has replaced the Session and the caller authenticates.
C16_Witness ==
    /\ ev.op = "load" /\ ev.loaded /\ ev.auth = "start"
    /\ pc[ev.by] = "mw_auth"
    /\ authManager.cookies # <<>>
    /\ Session(authManager) = [cookies |-> store.cookies, timestamp |-> store.timestamp]
    /\ now - authManager.lastAuthTime = maxSessionAge

\* C17: the extraction writes the new cookies and timestamp into the Session
\* before saveSession() is called; when the write then fails, the attempt
\* still settles with success for the initiator and every waiter, AuthProgress
\* ends in success, and the step leaves Session and store as they were.
C17_WriteFailureNotFatal ==
    [][\A o \in Tasks :
          /\ (ev'.op \in {"hop", "final"} /\ ev'.by = o /\ hs'[o].pc = "saving") =>
                 /\ Session(authManager') =
                        [cookies |-> hs'[o].session.cookies, timestamp |-> now]
                 /\ hs'[o].session.timestamp = now
          /\ (ev'.op = "settle" /\ ev'.by = o /\ hs[o].pc = "saving"
              /\ store' = store) =>
                 /\ ev'.result = "ok"
                 /\ \A u \in Awaiting(o) : ev'.got[u] = "ok"
                 /\ Status' = "success"
                 /\ authManager'.authProgress.progress = 100
                 /\ Session(authManager') = Session(authManager)]_vars
\* An attempt whose write failed has settled with success; the Session holds
\* its cookies and the store does not.
C17_Witness ==
    /\ ev.op = "settle" /\ ev.result = "ok"
    /\ Status = "success"
    /\ authManager.cookies # <<>>
    /\ authManager.lastAuthTime = now
    /\ ~store.exists

\* C18: a request whose awaited initialization or authenticate() call was
\* rejected, or whose cookie header came out empty, is answered by the
\* middleware with status 500 and a body with error, message, type, title and
\* status, and is not forwarded; no request is forwarded by the middleware
\* with an empty Cookie header.
C18_ProblemFields == {"error", "message", "type", "title", "status"}
C18_NoHeaderMeans500 ==
    [][\A t \in Tasks :
          /\ (ev'.by = t /\ t \in ready /\ pc[t] \in AwaitAuthPcs \cup {"init_wait"}
              /\ outcome[t] # "ok") =>
                 /\ ev'.res.status = 500 /\ ev'.res.body = outcome[t]
          /\ (ev'.by = t /\ t \in ready /\ pc[t] = "gc_auth" /\ outcome[t] = "ok"
              /\ authManager.cookies = <<>>) =>
                 /\ ev'.res.status = 500
                 /\ ev'.res.body =
                        "Failed to get cookie header - authentication may have failed"
          /\ (ev'.by = t /\ ev'.res.status = 500 /\ ev'.op # "proxyerror") =>
                 /\ C18_ProblemFields \subseteq ev'.res.fields
                 /\ pc[t] # "forwarded" /\ pc'[t] = "idle"
                 /\ fwd'[t] = NoHeaders
          /\ (ev'.by = t /\ pc[t] # "forwarded" /\ pc'[t] = "forwarded"
              /\ req'[t].method # "OPTIONS") =>
                 fwd'[t].cookie # <<>>]_vars
\* A request whose attempt succeeded without any cookie has been answered 500.
C18_Witness ==
    /\ ev.op = "resume_gc" /\ ev.res.status = 500
    /\ ev.res.body = "Failed to get cookie header - authentication may have failed"
    /\ C18_ProblemFields \subseteq ev.res.fields
    /\ authManager.cookies = <<>> /\ Status = "success"
    /\ \A t \in Tasks : pc[t] # "forwarded"

\* C19: within one request the headers are injected before it is forwarded:
\* every non-preflight request goes upstream with a Cookie header equal to the
\* serialization of the Session the middleware read for it, the fixed
\* User-Agent, the vendor Referer and X-Requested-With: XMLHttpRequest.
C19_Injected(cookies) ==
    [cookie |-> joinCookies(cookies), userAgent |-> userAgent,
     referer |-> vendorReferer, xRequestedWith |-> "XMLHttpRequest"]
C19_InjectedBeforeForwarding ==
    [][\A t \in Tasks :
          /\ (pc[t] # "forwarded" /\ pc'[t] = "forwarded"
              /\ req'[t].method # "OPTIONS") =>
                 /\ ev'.by = t
                 /\ fwd'[t] = C19_Injected(authManager'.cookies)
          /\ (pc'[t] = "forwarded" /\ req'[t].method # "OPTIONS") =>
                 /\ fwd'[t].cookie # <<>>
                 /\ fwd'[t].userAgent = userAgent
                 /\ fwd'[t].referer = vendorReferer
                 /\ fwd'[t].xRequestedWith = "XMLHttpRequest"
          /\ (pc'[t] # "forwarded") => fwd'[t] = NoHeaders]_vars
\* A /v1 request that arrived with a Cookie header of its own is upstream with
\* the Session's cookies in its place.
C19_Witness ==
    \E t \in Tasks :
        /\ pc[t] = "forwarded" /\ ev.by = t
        /\ req[t].kind = "v1" /\ req[t].method = "GET"
        /\ req[t].headers.cookie = <<"sid", "=", "caller">>
        /\ req[t].headers.userAgent = "caller-agent"
        /\ fwd[t] = C19_Injected(authManager.cookies)
        /\ fwd[t].cookie # req[t].headers.cookie

\* C20: every response to an upstream 401 or 403 carries x-auth-status:
\* authenticating, x-auth-status-url: /auth/status and x-retry-after: 2; /v1
\* passes the upstream status through, /api answers 401 with authStatus
\* "authenticating" for an upstream 401 and an upstream 403 alike.
C20_Advisory ==
    {<<"x-auth-status", "authenticating">>, <<"x-auth-status-url", "/auth/status">>,
     <<"x-retry-after", "2">>}
C20_AuthFailureResponse ==
    [][(ev'.op = "response" /\ pc[ev'.by] = "forwarded"
        /\ IsAuthFailure(ev'.res.upstream)) =>
          /\ C20_Advisory \subseteq ev'.res.headers
          /\ req[ev'.by].kind = "v1" => ev'.res.status = ev'.res.upstream
          /\ req[ev'.by].kind = "api" =>
                /\ ev'.res.status = 401
                /\ ev'.res.authStatus = "authenticating"
                /\ "authStatus" \in ev'.res.fields]_vars
\* /v1 has passed an upstream 403 through with the three headers.
C20_Witness ==
    /\ ev.op = "response" /\ ev.res.kind = "v1"
    /\ ev.res.upstream = 403 /\ ev.res.status = 403
    /\ C20_Advisory \subseteq ev.res.headers

C22_Leaking == {"set-cookie", "server", "x-powered-by"}
C22_NoUpstreamLeak ==
    [][(ev'.res.kind \in Kinds /\ ev'.res.status # 0) =>
          /\ \A h \in ev'.res.headers : h[1] \notin C22_Leaking
          /\ ev'.op = "response" =>
                <<"content-type", "application/json">> \in ev'.res.headers]_vars
\* /v1 has passed on a 403 of an upstream that sent all three headers.
C22_Witness ==
    /\ ev.op = "response" /\ ev.res.kind = "v1" /\ ev.res.upstream = 403
    /\ {h[1] : h \in ev.res.received} =
           {"content-type", "set-cookie", "server", "x-powered-by"}
    /\ ev.res.headers =
           {<<"content-type", "application/json">>} \cup authAdvisoryHeaders

\* C23: GET /health reports sessionValid = false and lastAuth = null before
\* any authentication attempt or session load; after a successful handshake it
\* reports sessionValid = true and lastAuth equal to the time the handshake
\* completed.
C23_HealthReports ==
    [][ev'.op = "health" =>
          /\ (nAttempts = 0 /\ ~authInitialized /\ authInitPromise = "null") =>
                ev'.res.sessionValid = FALSE /\ ev'.res.lastAuth = Null
          /\ Status = "success" =>
                /\ ev'.res.sessionValid = TRUE
                /\ ev'.res.lastAuth = authManager.authProgress.completedAt]_vars

\* The attempt of task o has just left the requests of its handshake behind
\* and extracted the Session (part_003 306).
Extracts(o) == hs[o].pc \in {"loop", "final"} /\ hs'[o].pc = "saving"
\* The chain task o follows has k redirects and ends at a vendor URL.
C24_VendorChain(o, k) ==
    /\ hs'[o].left = 0 /\ hs'[o].redirectCount = k /\ k < maxRedirects
    /\ hs'[o].final.host = MotorHost /\ hs'[o].currentUrl = hs'[o].final

\* C24 as amended: given a chain of k redirects (k < 10) that ends at a vendor
\* host, the login client issues exactly k + 2 requests: the k redirected
\* ones, the one the vendor answers without a redirect, and the additional one
\* to the vendor's entry path; for k = 3 it issues exactly 5.
C24_RequestCount ==
    [][\A o \in Tasks, k \in 0..maxRedirects :
          (Extracts(o) /\ C24_VendorChain(o, k)) =>
              /\ hs'[o].requests = k + 2
              /\ hs[o].pc = "final"]_vars
\* A chain of 3 redirects to the vendor has been followed with 5 requests.
C24_Witness ==
    \E o \in Tasks :
        /\ hs[o].pc = "saving" /\ hs[o].left = 0 /\ hs[o].redirectCount = 3
        /\ hs[o].currentUrl = MotorLandingUrl /\ hs[o].requests = 5
\* C24 as stated: given a chain of k redirects (k < 10) that ends at a vendor
\* host, the login client issues exactly k + 1 requests in total; for k = 3
\* it issues exactly 4.
C24_RequestCountStated ==
    [][\A o \in Tasks, k \in 0..maxRedirects :
          (Extracts(o) /\ C24_VendorChain(o, k)) => hs'[o].requests = k + 1]_vars

\* C25: whatever the redirect chain, endless ones included (a chain longer
\* than the ceiling is endless for the client), a handshake whose requests are
\* all answered issues at most 10 requests inside the redirect loop plus at
\* most one final vendor request and then resolves: every call waiting on
\* authenticate() is released and the in-progress marker is cleared.
C25_Bounded ==
    \A o \in Tasks :
        /\ hs[o].pc = "loop" => hs[o].requests <= maxRedirects
        /\ hs[o].pc \in {"final", "saving"} => hs[o].requests <= maxRedirects + 1
        /\ hs[o].redirectCount <= maxRedirects
C25_HandshakeTerminates ==
    /\ []C25_Bounded
    /\ \A o \in Tasks :
          (hs[o].pc # "none") ~>
              (hs[o].pc = "none" /\ authManager.authPromise = NoPromise)
    /\ \A o, u \in Tasks : (waitOn[u] = o) ~> (waitOn[u] = Null)
\* A chain that redirects past the ceiling has been cut after 10 requests.
C25_Witness ==
    \E o \in Tasks :
        /\ hs[o].pc = "saving" /\ hs[o].left > 0
        /\ hs[o].redirectCount = maxRedirects /\ hs[o].requests = maxRedirects

\* The host is the vendor's: its name ends with the vendor's domain.
C26_VendorHost(host) == host # <<>> /\ host[Len(host)] = "motor.com"
\* The loop of task o stops in this step on a response that is not a redirect.
C26_StopsOnAnswer(o) ==
    /\ hs[o].pc = "loop" /\ hs'[o].pc \in {"final", "saving"}
    /\ hs'[o].redirectCount = hs[o].redirectCount

\* C26: the additional request to the vendor's entry path is issued exactly
\* when the loop stops on a non-redirect response whose current URL's host is
\* the vendor host: at most once per attempt, the loop stops after it, and it
\* is never issued when the current URL's host is not the vendor host.
C26_FinalRequestIffVendorHost ==
    [][\A o \in Tasks :
          /\ C26_StopsOnAnswer(o) =>
                (hs'[o].pc = "final" <=> C26_VendorHost(hs[o].currentUrl.host))
          /\ (hs[o].pc # "final" /\ hs'[o].pc = "final") =>
                /\ C26_StopsOnAnswer(o)
                /\ hs'[o].requests = hs[o].requests + 1
          /\ hs[o].pc = "final" => hs'[o].pc \in {"final", "saving", "none"}]_vars

\* C27: after the redirect loop the Session's cookies are exactly the Jar's
\* cookies whose domain indicates the vendor (contains the vendor's domain)
\* when there is at least one, and exactly all of the Jar's cookies
\* otherwise; no other cookie is stored once a vendor cookie was collected.
C27_Vendor(jar) == {i \in 1..Len(jar) : "motor.com" \in Range(jar[i].domain)}
C27_ExtractionPolicy ==
    [][\A o \in Tasks :
          Extracts(o) =>
             LET jar == hs'[o].cookieJar
                 kept == IF C27_Vendor(jar) = {} THEN 1..Len(jar)
                         ELSE C27_Vendor(jar)
                 session == authManager'.cookies
             IN  /\ Range(session) = {jar[i] : i \in kept}
                 /\ Len(session) = Cardinality(kept)
                 /\ \A i, j \in 1..Len(session) :
                       i # j => session[i].name # session[j].name
                 /\ hs'[o].session.cookies = session]_vars
\* A jar with a vendor cookie and others has been extracted.
C27_Witness ==
    \E o \in Tasks :
        /\ hs[o].pc = "saving"
        /\ C27_Vendor(hs[o].cookieJar) # {}
        /\ Len(hs[o].cookieJar) > Cardinality(C27_Vendor(hs[o].cookieJar))
        /\ Len(authManager.cookies) = Cardinality(C27_Vendor(hs[o].cookieJar))
        /\ \A i \in 1..Len(authManager.cookies) :
               authManager.cookies[i].domain = MotorHost

\* The name and the value a Set-Cookie header 'name=value; attributes' states:
\* the text before the first "=" and the text from there to the first ";".
C28_First(s, token) ==
    IF token \in Range(s)
    THEN CHOOSE i \in 1..Len(s) : s[i] = token /\ \A j \in 1..(i - 1) : s[j] # token
    ELSE Len(s) + 1
C28_Pair(header) ==
    LET nameValue == trim(SubSeq(header, 1, C28_First(header, ";") - 1))
        e == C28_First(nameValue, "=")
    IN  [name |-> Text(SubSeq(nameValue, 1, e - 1)),
         value |-> Text(SubSeq(nameValue, e + 1, Len(nameValue)))]
\* C28: every Set-Cookie header of every response of the handshake is recorded
\* in the Jar under the host that responded: after 'name=value; attributes'
\* from host h the Jar maps name to exactly {value, domain: h}, and the cookies
\* of earlier hops remain in the Jar.
C28_EveryCookieRecorded ==
    [][(ev'.op \in {"hop", "final"}) =>
          LET o == ev'.by
              h == IF ev'.op = "hop" THEN hs[o].currentUrl.host ELSE motorUrl.host
              headers == ResponseCookies(h, hs'[o].sets, nAttempts)
              before == hs[o].cookieJar
              after == hs'[o].cookieJar
              set == {C28_Pair(headers[i]) : i \in 1..Len(headers)}
          IN  /\ \A c \in set :
                    \E i \in 1..Len(after) :
                        after[i] = [name |-> c.name, value |-> c.value, domain |-> h]
              /\ \A i \in 1..Len(before) :
                    (\A c \in set : c.name # before[i].name) =>
                        \E j \in 1..Len(after) : after[j] = before[i]]_vars

\* C29: a Cookie Jar is never shared across attempts: each handshake starts
\* with an empty Jar, and the Session a successful attempt writes holds only
\* cookies received in responses of that attempt, never one of an earlier
\* attempt or of the previous Session.
C29_JarPerAttempt ==
    [][\A o \in Tasks :
          /\ (ev'.auth = "start" /\ ev'.by = o) =>
                hs'[o].cookieJar = <<>> /\ hs'[o].redirectCount = 0
          /\ Extracts(o) =>
                \A i \in 1..Len(authManager'.cookies) :
                    LET c == authManager'.cookies[i]
                    IN  /\ c.value = "v" \o ToString(nAttempts)
                        /\ c.domain \in hs'[o].sets \cup {motorUrl.host}
                        /\ c.name = CookieName(c.domain)]_vars
\* The second attempt has extracted the one cookie it received while the
\* store still holds the vendor cookie of the first.
C29_Witness ==
    \E o \in Tasks :
        /\ hs[o].pc = "saving" /\ nAttempts = 2
        /\ store.exists /\ Len(store.cookies) = 1
        /\ store.cookies[1].name = "msid" /\ store.cookies[1].value = "v1"
        /\ authManager.cookies =
               <<[name |-> "ebsco", value |-> "v2", domain |-> EbscoHost]>>

\* C30: whenever an authenticate() call resolves successfully the Session is
\* valid at that moment: an attempt that collected no cookie does not resolve
\* as a success and does not leave AuthProgress at success with an invalid
\* Session.
C30_SuccessMeansValid ==
    [][(ev'.op = "settle" /\ ev'.result = "ok") =>
          /\ isSessionValid(authManager', now')
          /\ authManager'.cookies # <<>>
          /\ \A u \in Tasks : ev'.got[u] \in {"none", "ok"}]_vars

C32_Recovering ==
    /\ nAttempts = 1
    /\ \E u \in Tasks :
          /\ pc[u] = "detached"
          /\ req[u].kind \in Kinds
          /\ req[u].method # "OPTIONS"
          /\ hs[u].pc \in {"loop", "final"}

\* C32: after an upstream 401/403 has invalidated a session, no later
\* request is forwarded with the dead session's cookies: until the recovery
\* handshake has succeeded they are never attached again, in particular not
\* by reloading them from the Session Store.
C32_DeadCookiesNotReattached ==
    [][\A t \in Tasks :
          (/\ C32_Recovering
           /\ pc[t] # "forwarded"
           /\ pc'[t] = "forwarded"
           /\ req'[t].method # "OPTIONS") =>
             fwd'[t].cookie # joinCookies(store.cookies)]_vars

\* C33: handling one inbound request starts at most one login handshake:
\* lazy initialization, the middleware's own authenticate() and the
\* getCookies() behind getCookieHeader() together start at most one.
C33_OneHandshakePerRequest ==
    \A t \in Tasks : req[t].kind \in Kinds => req[t].started <= 1

\* C34: a response that reports an upstream 401/403 is never sent with the
\* 24-hour cache lifetime.
C34_AdvisoryNotCached ==
    [][(ev'.op = "response" /\ IsAuthFailure(ev'.res.upstream)) =>
          \A h \in ev'.res.headers : h[1] # "cache-control"]_vars

\* C35: the Cookie header sent upstream for a non-preflight request is a
\* function of the Session only: it is the serialization of the Session, and
\* the same request with any other Cookie header from the caller would be
\* forwarded with the same one.
C35_CookieFromSessionOnly ==
    [][\A t \in Tasks :
          (pc[t] # "forwarded" /\ pc'[t] = "forwarded"
           /\ req'[t].method # "OPTIONS") =>
             LET header == joinCookies(authManager'.cookies)
             IN  /\ fwd'[t].cookie = header
                 /\ \A c \in CallerCookies :
                       forwardedHeaders([req'[t] EXCEPT !.headers.cookie = c],
                                        header).cookie = fwd'[t].cookie]_vars
\* Two requests that differ in the caller's Cookie header are upstream with
\* the same Cookie header, the Session's.
C35_Witness ==
    \E t, u \in Tasks :
        /\ pc[t] = "forwarded" /\ pc[u] = "forwarded"
        /\ req[t].kind = "api" /\ req[u].kind = "api"
        /\ req[t].method = "GET" /\ req[u].method = "GET"
        /\ req[t].headers.cookie = <<"sid", "=", "caller">>
        /\ req[u].headers.cookie = <<>>
        /\ fwd[t].cookie = fwd[u].cookie
        /\ fwd[t].cookie = joinCookies(authManager.cookies)
        /\ fwd[t].cookie # <<>>

\* The requests that are executing the body of initializeAuth()
C36_InBody == {t \in Tasks : pc[t] \in {"init_load", "init_auth"}}

\* C36: lazy initialization runs its body at most once per process: a body
\* is entered only when none was ever started, concurrent first requests
\* await the one in progress and all observe its outcome when it completes,
\* and a completed initialization is never started again.
C36_InitializesOnce ==
    [][/\ Cardinality(C36_InBody') <= 1
       /\ \A t \in Tasks :
             (t \in C36_InBody' \ C36_InBody) =>
                ~authInitialized /\ authInitPromise = "null" /\ C36_InBody = {}
       /\ authInitPromise # "null" => authInitPromise' # "null"
       /\ authInitPromise \in {"fulfilled", "rejected"} =>
             /\ authInitPromise' = authInitPromise
             /\ authInitialized /\ authInitialized'
             /\ C36_InBody' = {}
       /\ (authInitPromise = "pending" /\ authInitPromise' # "pending") =>
             /\ authInitialized'
             /\ C36_InBody = {ev'.by}
             /\ \A u \in Tasks :
                   pc[u] = "init_wait" =>
                      /\ u \in ready'
                      /\ outcome'[u] = IF authInitPromise' = "fulfilled" THEN "ok"
                                       ELSE outcome[ev'.by]
       /\ \A u \in Tasks :
             (pc'[u] = "init_wait" /\ u \notin ready') =>
                authInitPromise' = "pending"]_vars
\* A first request that arrived while initialization was in progress is
\* released with the error of the initialization it awaited.
C36_Witness ==
    /\ authInitialized /\ authInitPromise = "rejected"
    /\ \E u \in Tasks :
          /\ pc[u] = "init_wait" /\ u \in ready
          /\ outcome[u] \notin {"ok", "none"}
          /\ ev.by # u /\ ev.op = "resume"

\* C37: GET /health, GET /auth/status, getProgress() and isSessionValid()
\* are read-only: from any state, mid-attempt included, they leave the
\* Session, AuthProgress, the stored record and the in-progress marker
\* unchanged and start no handshake, and a change a caller makes to the
\* object getProgress() returned does not change AuthProgress.
C37_ReadOnly ==
    [][ev'.op \in {"health", "status", "poll"} =>
          /\ authManager' = authManager
          /\ store' = store
          /\ hs' = hs
          /\ nAttempts' = nAttempts
          /\ ev'.auth = "none"
          /\ authInitialized' = authInitialized
          /\ authInitPromise' = authInitPromise]_vars
\* Mid-attempt, a caller has changed the object it got from getProgress()
\* and the manager still reports the attempt's progress.
C37_Witness ==
    /\ ev.op = "poll"
    /\ Running # {}
    /\ authManager.authPromise.state = "pending"
    /\ Status = "authenticating"
    /\ authManager.authProgress.progress \notin {0, 55}
    /\ authManager.authProgress.completedAt = Null

C38_Percent == authManager.authProgress.progress

\* C38: the percentage of AuthProgress stays within 0..100 and, while the
\* status stays authenticating within an attempt, never decreases; it is
\* 100 exactly when the status is success and 0 when the status is error
\* or idle.
C38_PercentMonotone ==
    [][/\ C38_Percent' \in 0..100
       /\ (Status' = "success") <=> (C38_Percent' = 100)
       /\ Status' \in {"error", "idle"} => C38_Percent' = 0
       /\ (Status = "authenticating" /\ Status' = "authenticating") =>
             C38_Percent' >= C38_Percent]_vars
\* The attempt has followed more redirects than the percentage distinguishes:
\* it stays at the ceiling of the redirect phase.
C38_Witness ==
    /\ Status = "authenticating"
    /\ authManager.authProgress.step = "redirecting"
    /\ C38_Percent = 70
    /\ \E o \in Running : hs[o].redirectCount >= 6 /\ hs[o].pc = "loop"

\* C39: in every state a poller can observe AuthProgress is well-formed:
\* completedAt is set iff the status is success or error, error is set iff
\* the status is error, and startedAt is set iff the status is not idle.
C39_WellFormed ==
    LET p == authManager.authProgress
    IN  /\ (p.completedAt # Null) <=> (p.status \in {"success", "error"})
        /\ (p.error # NullStr) <=> (p.status = "error")
        /\ (p.startedAt # Null) <=> (p.status # "idle")
\* An attempt that another caller had joined has failed: the error, its
\* completion time and its start time are all reported.
C39_Witness ==
    LET p == authManager.authProgress
    IN  /\ p.status = "error" /\ p.error # NullStr
        /\ p.completedAt # Null /\ p.startedAt # Null
        /\ ev.op = "settle" /\ ev.result # "ok"
        /\ \E u \in Tasks : u # ev.by /\ ev.got[u] # "none"

====
